---- MODULE Spec2Model ----
(***************************************************************************)
(* Model of subnet.py: validate_input, calculate_subnet_details,           *)
(* calculate_multiple_subnets and main, together with the parts of the     *)
(* standard ipaddress module they call (ip_network, netmask,               *)
(* network_address, broadcast_address, hosts, subnets), as shipped with    *)
(* CPython 3.11.                                                           *)
(*                                                                         *)
(* Python integers are unbounded while TLC integers are 32-bit signed, so  *)
(* an address-sized integer is held as two 16-bit limbs <<hi, lo>> with    *)
(* value hi * 2^16 + lo.  hi may exceed 2^16 - 1, which lets 2^32 itself   *)
(* (the size of a /0) be represented.                                      *)
(*                                                                         *)
(* An optional Python value is <<>> (None) or <<v>>.                       *)
(***************************************************************************)
EXTENDS Integers, Sequences, FiniteSets, TLC

\* ---------------------------------------------------------------- bounds
MaxCount == 8
CidrSlack == 1

\* ------------------------------------------------------ program constants
IPV4LENGTH == 32
Limb == 2 ^ 16

None == <<>>
Some(v) == <<v>>
Truthy(x) == x # None /\ x[1] # 0

\* ------------------------------------------------ two-limb integer values
Long(n) == <<0, n>>
One == Long(1)
LongAdd(x, y) ==
    LET s == x[2] + y[2] IN <<x[1] + y[1] + (s \div Limb), s % Limb>>
LongSub(x, y) ==
    IF x[2] >= y[2] THEN <<x[1] - y[1], x[2] - y[2]>>
    ELSE <<x[1] - y[1] - 1, x[2] + Limb - y[2]>>
LongLess(x, y) == x[1] < y[1] \/ (x[1] = y[1] /\ x[2] < y[2])
Pow2(k) == IF k >= 16 THEN <<2 ^ (k - 16), 0>> ELSE <<0, 2 ^ k>>
ShiftRight(x, k) ==
    IF k >= 16 THEN <<0, x[1] \div (2 ^ (k - 16))>>
    ELSE <<x[1] \div (2 ^ k),
           (x[1] % (2 ^ k)) * (2 ^ (16 - k)) + (x[2] \div (2 ^ k))>>

RECURSIVE And16(_, _)
And16(a, b) ==
    IF a = 0 \/ b = 0 THEN 0
    ELSE (a % 2) * (b % 2) + 2 * And16(a \div 2, b \div 2)
RECURSIVE Or16(_, _)
Or16(a, b) ==
    IF a = 0 THEN b
    ELSE IF b = 0 THEN a
    ELSE (IF (a % 2) + (b % 2) > 0 THEN 1 ELSE 0) + 2 * Or16(a \div 2, b \div 2)
RECURSIVE Xor16(_, _)
Xor16(a, b) ==
    IF a = 0 THEN b
    ELSE IF b = 0 THEN a
    ELSE (((a % 2) + (b % 2)) % 2) + 2 * Xor16(a \div 2, b \div 2)
BitAnd(x, y) == <<And16(x[1], y[1]), And16(x[2], y[2])>>
BitOr(x, y) == <<Or16(x[1], y[1]), Or16(x[2], y[2])>>
BitXor(x, y) == <<Xor16(x[1], y[1]), Xor16(x[2], y[2])>>

\* ------------------------------------------------------ ipaddress module
ALL_ONES == <<Limb - 1, Limb - 1>>

\* str(IPv4Address): big-endian decomposition into four octets.
DottedQuad(x) == <<x[1] \div 256, x[1] % 256, x[2] \div 256, x[2] % 256>>

\* IPv4Network._make_netmask: the prefix lengths accepted.
\* (variant: prefix length 0 refused)
ValidPrefixlen_NoZero(p) == p >= 1 /\ p <= IPV4LENGTH
ValidPrefixlen(p) == p >= 0 /\ p <= IPV4LENGTH

\* _ip_int_from_prefix
Netmask(prefixlen) == BitXor(ALL_ONES, ShiftRight(ALL_ONES, prefixlen))
Hostmask(prefixlen) == BitXor(Netmask(prefixlen), ALL_ONES)

\* strict=False: host bits of the given address are masked away.
\* (variant: the address is kept as given)
NetworkAddress_Unmasked(packed, prefixlen) == packed
NetworkAddress(packed, prefixlen) == BitAnd(packed, Netmask(prefixlen))

\* (variant: the netmask is used where the hostmask belongs)
BroadcastAddress_Netmask(network, prefixlen) == BitOr(network, Netmask(prefixlen))
BroadcastAddress(network, prefixlen) == BitOr(network, Hostmask(prefixlen))

\* A network text is the address followed by its "/"-separated parts; each
\* part is an optional integer, <<>> being the text "None".
FString(ip_address, cidr) ==
    [addr |-> ip_address.addr, parts |-> Append(ip_address.parts, cidr)]

\* ipaddress.ip_network(text, strict=False)
IpNetwork(text) ==
    IF Len(text.parts) > 1
    THEN [ok |-> FALSE, error |-> "InvalidAddressText"]
    ELSE IF Len(text.parts) = 0
    THEN [ok |-> TRUE,
          network_address |-> NetworkAddress(text.addr, IPV4LENGTH),
          prefixlen |-> IPV4LENGTH]
    ELSE IF text.parts[1] = None \/ ~ValidPrefixlen(text.parts[1][1])
    THEN [ok |-> FALSE, error |-> "InvalidPrefix"]
    ELSE [ok |-> TRUE,
          network_address |-> NetworkAddress(text.addr, text.parts[1][1]),
          prefixlen |-> text.parts[1][1]]

\* First and last element of list(network.hosts()), <<>> when it is empty.
\* (variant: no special case for the prefix lengths 31 and 32)
Hosts_Plain(network, prefixlen) ==
    LET broadcast == BitOr(network, Hostmask(prefixlen)) IN
    IF LongLess(LongAdd(network, One), broadcast)
    THEN <<LongAdd(network, One), LongSub(broadcast, One)>>
    ELSE <<>>
Hosts(network, prefixlen) ==
    LET broadcast == BroadcastAddress(network, prefixlen) IN
    IF prefixlen = IPV4LENGTH - 1 THEN <<network, broadcast>>
    ELSE IF prefixlen = IPV4LENGTH THEN <<network, network>>
    ELSE IF LongLess(LongAdd(network, One), broadcast)
    THEN <<LongAdd(network, One), LongSub(broadcast, One)>>
    ELSE <<>>

\* range(start, end, step)
RECURSIVE Range(_, _, _)
Range(start, end, step) ==
    IF LongLess(start, end)
    THEN <<start>> \o Range(LongAdd(start, step), end, step)
    ELSE <<>>

\* (variant: the end of the range is the broadcast address itself)
SubnetEnd_Short(broadcast) == broadcast
SubnetEnd(broadcast) == LongAdd(broadcast, One)
SubnetStep(hostmask, prefixlen_diff) ==
    ShiftRight(LongAdd(hostmask, One), prefixlen_diff)

\* network.subnets(new_prefix=...): the children as (address, prefixlen)
\* pairs, or a ValueError.
Subnets(network, prefixlen, new_prefix) ==
    IF prefixlen = IPV4LENGTH
    THEN [ok |-> TRUE, list |-> <<[network_address |-> network,
                                   prefixlen |-> prefixlen]>>]
    ELSE IF new_prefix < prefixlen \/ new_prefix > IPV4LENGTH
    THEN [ok |-> FALSE, error |-> "ValueError"]
    ELSE LET starts == Range(network,
                             SubnetEnd(BroadcastAddress(network, prefixlen)),
                             SubnetStep(Hostmask(prefixlen),
                                        new_prefix - prefixlen))
         IN [ok |-> TRUE,
             list |-> [i \in 1..Len(starts) |->
                          [network_address |-> starts[i],
                           prefixlen |-> new_prefix]]]

\* -------------------------------------------------------------- subnet.py
NA == <<>>
UsableRange(hosts) ==
    IF hosts # <<>> THEN <<DottedQuad(hosts[1]), DottedQuad(hosts[2])>> ELSE NA

\* The dictionary built by calculate_subnet_details.
SubnetDetails(net) ==
    [mask |-> DottedQuad(Netmask(net.prefixlen)),
     network |-> DottedQuad(net.network_address),
     broadcast |-> DottedQuad(BroadcastAddress(net.network_address, net.prefixlen)),
     usable |-> UsableRange(Hosts(net.network_address, net.prefixlen))]

\* One dictionary of the list built by calculate_multiple_subnets.
ChildDetails(subnet) ==
    [subnet |-> <<DottedQuad(subnet.network_address), subnet.prefixlen>>,
     mask |-> DottedQuad(Netmask(subnet.prefixlen)),
     network |-> DottedQuad(subnet.network_address),
     broadcast |-> DottedQuad(BroadcastAddress(subnet.network_address,
                                               subnet.prefixlen)),
     usable |-> UsableRange(Hosts(subnet.network_address, subnet.prefixlen))]

\* (variant: one bit too many)
MaxSubnets_Wide(c) == Pow2(IPV4LENGTH + 1 - c)
MaxSubnets(c) == Pow2(IPV4LENGTH - c)
\* subnets > max_subnets, for a subnets below 2^16
\* (variant: >= in place of >)
ExceedsCapacity_Eq(n, max_subnets) == max_subnets[1] = 0 /\ n >= max_subnets[2]
ExceedsCapacity(n, max_subnets) == max_subnets[1] = 0 /\ n > max_subnets[2]
\* 2 ** (new_cidr - cidr) < subnets
\* (variant: <= in place of <)
LoopCond_Le(nc, c, n) ==
    LET p == Pow2(nc - c) IN p[1] = 0 /\ p[2] <= n
LoopCond(nc, c, n) ==
    LET p == Pow2(nc - c) IN p[1] = 0 /\ p[2] < n

Addrs ==
    { <<0, 0>>,                        \* 0.0.0.0
      <<10 * 256, 5>>,                 \* 10.0.0.5
      <<192 * 256 + 168, 256>>,        \* 192.168.1.0
      <<192 * 256 + 168, 256 + 77>>,   \* 192.168.1.77
      <<172 * 256 + 16, 65535>>,       \* 172.16.255.255
      <<Limb - 1, Limb - 1>> }         \* 255.255.255.255
Embedded == { <<>>, <<Some(24)>>, <<Some(IPV4LENGTH + CidrSlack)>> }
CidrArgs == { None } \cup { Some(c) : c \in (0 - CidrSlack)..(IPV4LENGTH + CidrSlack) }
SubnetArgs == { None } \cup { Some(n) : n \in (0 - 1)..MaxCount }

NoResults == [is_list |-> FALSE, items |-> <<>>]

VARIABLES args, pc, cidr, err, new_cidr, results
vars == <<args, pc, cidr, err, new_cidr, results>>

\* main, after parse_arguments has returned.
Init ==
    /\ args \in [ip_address : [addr : Addrs, parts : Embedded],
                 cidr : CidrArgs,
                 subnets : SubnetArgs]
    /\ pc = "validate"
    /\ cidr = args.cidr
    /\ err = "none"
    /\ new_cidr = None
    /\ results = NoResults

\* validate_input(args.ip_address, args.cidr, args.subnets)
ValidateInput ==
    /\ pc = "validate"
    /\ LET ip_network == IF args.cidr # None
                         THEN IpNetwork(FString(args.ip_address, args.cidr))
                         ELSE IpNetwork(args.ip_address)
       IN IF ~ip_network.ok
          THEN /\ err' = ip_network.error
               /\ pc' = "exit"
               /\ cidr' = cidr
          ELSE LET c == IF args.cidr = None THEN ip_network.prefixlen
                        ELSE args.cidr[1]
               IN /\ cidr' = Some(c)
                  /\ IF Truthy(args.subnets)
                        /\ ExceedsCapacity(args.subnets[1], MaxSubnets(c))
                     THEN err' = "SubnetCountExceedsCapacity" /\ pc' = "exit"
                     ELSE err' = "none" /\ pc' = "main"
    /\ UNCHANGED <<args, new_cidr, results>>

\* main: else branch, calculate_subnet_details(args.ip_address, args.cidr)
CalculateSubnetDetails ==
    /\ pc = "main"
    /\ ~Truthy(args.subnets)
    /\ LET ip_network == IpNetwork(FString(args.ip_address, args.cidr))
       IN IF ~ip_network.ok
          THEN pc' = "crash" /\ results' = results
          ELSE /\ results' = [is_list |-> FALSE,
                              items |-> <<SubnetDetails(ip_network)>>]
               /\ pc' = "display"
    /\ UNCHANGED <<args, cidr, err, new_cidr>>

\* main: if branch, entry of calculate_multiple_subnets: new_cidr = cidr
EnterMultipleSubnets ==
    /\ pc = "main"
    /\ Truthy(args.subnets)
    /\ new_cidr' = args.cidr
    /\ pc' = "loop"
    /\ UNCHANGED <<args, cidr, err, results>>

\* new_cidr - cidr with cidr = None raises TypeError
LoopTypeError ==
    /\ pc = "loop"
    /\ args.cidr = None
    /\ pc' = "crash"
    /\ UNCHANGED <<args, cidr, err, new_cidr, results>>

\* one iteration of the while loop
LoopIncrement ==
    /\ pc = "loop"
    /\ args.cidr # None
    /\ LoopCond(new_cidr[1], args.cidr[1], args.subnets[1])
    /\ new_cidr' = Some(new_cidr[1] + 1)
    /\ UNCHANGED <<args, pc, cidr, err, results>>

\* the rest of calculate_multiple_subnets once the loop has exited
SplitSubnets ==
    /\ pc = "loop"
    /\ args.cidr # None
    /\ ~LoopCond(new_cidr[1], args.cidr[1], args.subnets[1])
    /\ LET ip_network == IpNetwork(FString(args.ip_address, args.cidr))
       IN IF ~ip_network.ok
          THEN pc' = "crash" /\ results' = results
          ELSE LET subnet_list == Subnets(ip_network.network_address,
                                          ip_network.prefixlen, new_cidr[1])
               IN IF ~subnet_list.ok
                  THEN pc' = "crash" /\ results' = results
                  ELSE IF \E i \in 1..Len(subnet_list.list) :
                             Hosts(subnet_list.list[i].network_address,
                                   subnet_list.list[i].prefixlen) = <<>>
                  THEN pc' = "crash" /\ results' = results
                  ELSE /\ results' =
                            [is_list |-> TRUE,
                             items |-> [i \in 1..Len(subnet_list.list) |->
                                           ChildDetails(subnet_list.list[i])]]
                       /\ pc' = "display"
    /\ UNCHANGED <<args, cidr, err, new_cidr>>

DisplayResults ==
    /\ pc = "display"
    /\ pc' = "done"
    /\ UNCHANGED <<args, cidr, err, new_cidr, results>>

Next ==
    \/ ValidateInput
    \/ CalculateSubnetDetails
    \/ EnterMultipleSubnets
    \/ LoopTypeError
    \/ LoopIncrement
    \/ SplitSubnets
    \/ DisplayResults

Spec == Init /\ [][Next]_vars

TypeOK ==
    /\ pc \in {"validate", "main", "loop", "display", "done", "exit", "crash"}
    /\ err \in {"none", "InvalidPrefix", "InvalidAddressText",
                "SubnetCountExceedsCapacity"}

\* ------------------------------------------------- arithmetic of the claims
\* The integer a dotted quad denotes.
FromQuad(q) == <<q[1] * 256 + q[2], q[3] * 256 + q[4]>>
\* x mod 2^k
LowBits(x, k) ==
    IF k >= 16 THEN <<x[1] % (2 ^ (k - 16)), x[2]>>
    ELSE <<0, x[2] % (2 ^ k)>>
ExpectedMask(p) == LongSub(Pow2(IPV4LENGTH), Pow2(IPV4LENGTH - p))
ExpectedNetwork(a, p) == LongSub(a, LowBits(a, IPV4LENGTH - p))
ExpectedBroadcast(a, p) ==
    LongAdd(ExpectedNetwork(a, p), LongSub(Pow2(IPV4LENGTH - p), One))

InRange(p) == p \in 0..IPV4LENGTH
BareAddress == args.ip_address.parts = <<>>
ExplicitValid == args.cidr # None /\ InRange(args.cidr[1]) /\ BareAddress
Produced == pc \in {"display", "done"}
SingleProduced == Produced /\ ~results.is_list
ListProduced == Produced /\ results.is_list
Items == results.items
\* n > 2^(32 - p) for a count n below 2^15
Over(n, p) == IPV4LENGTH - p < 15 /\ n > 2 ^ (IPV4LENGTH - p)

\* C1: the subnets enumerated by calculate_multiple_subnets all have the new
\* prefix length, start at the parent's network address, end at the parent's
\* broadcast address, are strictly ascending, and each next network address
\* is the previous broadcast address + 1.
C1_SplitTiles ==
    ListProduced =>
        LET p == args.cidr[1]
            q == new_cidr[1]
            a == args.ip_address.addr
            n == Len(Items)
        IN /\ n >= 1
           /\ \A i \in 1..n :
                 /\ Items[i].subnet[2] = q
                 /\ Items[i].subnet[1] = Items[i].network
                 /\ ~LongLess(FromQuad(Items[i].broadcast),
                              FromQuad(Items[i].network))
           /\ FromQuad(Items[1].network) = ExpectedNetwork(a, p)
           /\ FromQuad(Items[n].broadcast) = ExpectedBroadcast(a, p)
           /\ \A i \in 1..(n - 1) :
                 /\ LongLess(FromQuad(Items[i].network),
                             FromQuad(Items[i + 1].network))
                 /\ FromQuad(Items[i + 1].network) =
                       LongAdd(FromQuad(Items[i].broadcast), One)
C1_Witness ==
    /\ pc = "done"
    /\ results.is_list
    /\ Len(Items) >= 4
    /\ FromQuad(Items[1].network) # args.ip_address.addr

\* C2: for a count n >= 1 within capacity, the prefix search ends with the
\* smallest q >= p such that 2^(q-p) >= n; for n = 1 it ends with p.
C2_MinimalPrefix ==
    (ListProduced /\ args.subnets[1] >= 1) =>
        LET p == args.cidr[1]
            q == new_cidr[1]
            n == args.subnets[1]
        IN /\ q >= p
           /\ q <= IPV4LENGTH
           /\ 2 ^ (q - p) >= n
           /\ \A r \in p..(q - 1) : 2 ^ (r - p) < n
           /\ (n = 1 => q = p)
C2_Witness ==
    /\ ListProduced
    /\ args.subnets[1] = 5
    /\ new_cidr[1] = args.cidr[1] + 3

\* The prefix length of the i-th described network.
ItemPrefix(i) == IF results.is_list THEN Items[i].subnet[2] ELSE cidr[1]
ItemCount(i) ==
    LongAdd(LongSub(FromQuad(Items[i].usable[2]), FromQuad(Items[i].usable[1])),
            One)

TextValid ==
    \/ ExplicitValid
    \/ args.cidr = None /\ BareAddress
    \/ /\ args.cidr = None
       /\ ~BareAddress
       /\ InRange(args.ip_address.parts[1][1])
TextPrefix ==
    IF args.cidr # None THEN args.cidr[1]
    ELSE IF BareAddress THEN IPV4LENGTH
    ELSE args.ip_address.parts[1][1]

\* C4: a count above 2^(32 - prefix) is reported as
\* SubnetCountExceedsCapacity and nothing is enumerated; a count from 1 to
\* 2^(32 - prefix) is not reported as that error.
C4_Capacity ==
    (pc # "validate" /\ TextValid /\ args.subnets # None) =>
        LET p == TextPrefix
            n == args.subnets[1]
        IN /\ Over(n, p) =>
                 /\ err = "SubnetCountExceedsCapacity"
                 /\ pc = "exit"
                 /\ new_cidr = None
                 /\ results = NoResults
           /\ (n >= 1 /\ ~Over(n, p)) =>
                 /\ err = "none"
                 /\ pc # "exit"
C4_Witness ==
    /\ pc = "exit"
    /\ err = "SubnetCountExceedsCapacity"
    /\ args.cidr = Some(30)
    /\ args.subnets = Some(5)

\* C5: a requested count that is zero or negative ends in the error outcome
\* and never produces a network description or a subnet list.
C5_InvalidSubnetCount ==
    (args.subnets # None /\ args.subnets[1] <= 0) =>
        /\ pc \in {"validate", "exit"}
        /\ results = NoResults

\* C6: for a valid address and explicit prefix the description does not fail
\* and the reported network address is address AND mask(prefix): it has no
\* host bit set, and the reported mask has exactly the top prefix bits set.
C6_NetworkAddress ==
    /\ (ExplicitValid /\ ~Truthy(args.subnets)) => pc \notin {"crash", "exit"}
    /\ (SingleProduced /\ ExplicitValid) =>
          LET p == args.cidr[1]
              net == FromQuad(Items[1].network)
          IN /\ net = ExpectedNetwork(args.ip_address.addr, p)
             /\ LowBits(net, IPV4LENGTH - p) = Long(0)
             /\ FromQuad(Items[1].mask) = ExpectedMask(p)
C6_Witness ==
    /\ pc = "done"
    /\ ~results.is_list
    /\ args.cidr = Some(24)
    /\ args.ip_address.addr = <<192 * 256 + 168, 256 + 77>>
    /\ Items[1].network = <<192, 168, 1, 0>>
    /\ Items[1].mask = <<255, 255, 255, 0>>

\* C7: the reported broadcast address is the network address with every host
\* bit set; for prefix 32 it is the network address, for prefix 0 it is
\* 0xFFFFFFFF.
C7_BroadcastAddress ==
    (SingleProduced /\ ExplicitValid) =>
        LET p == args.cidr[1]
            net == FromQuad(Items[1].network)
            bc == FromQuad(Items[1].broadcast)
        IN /\ bc = ExpectedBroadcast(args.ip_address.addr, p)
           /\ bc = LongAdd(net, LongSub(Pow2(IPV4LENGTH - p), One))
           /\ LowBits(bc, IPV4LENGTH - p) = LongSub(Pow2(IPV4LENGTH - p), One)
           /\ (p = IPV4LENGTH => bc = net)
           /\ (p = 0 => Items[1].broadcast = <<255, 255, 255, 255>>)
C7_Witness ==
    /\ pc = "done"
    /\ ~results.is_list
    /\ args.cidr = Some(20)
    /\ args.ip_address.addr = <<172 * 256 + 16, 65535>>
    /\ Items[1].broadcast = <<172, 16, 255, 255>>
    /\ Items[1].network = <<172, 16, 240, 0>>

\* C8: an explicit prefix outside [0, 32] is rejected by validation with
\* InvalidPrefix and neither calculation runs; every prefix inside [0, 32]
\* is accepted.
C8_InvalidPrefix ==
    (pc # "validate" /\ args.cidr # None /\ BareAddress) =>
        /\ ~InRange(args.cidr[1]) =>
              /\ pc = "exit"
              /\ err = "InvalidPrefix"
              /\ new_cidr = None
              /\ results = NoResults
        /\ InRange(args.cidr[1]) =>
              /\ err # "InvalidPrefix"
              /\ cidr = args.cidr
              /\ ~Truthy(args.subnets) => (err = "none" /\ pc # "exit")
C8_Witness ==
    /\ pc = "exit"
    /\ err = "InvalidPrefix"
    /\ args.cidr = Some(IPV4LENGTH + 1)
    /\ BareAddress

\* C9: with no explicit and no embedded prefix the bare address is treated
\* as a /32 host route end to end: validation resolves prefix 32 and main
\* then describes that /32 network.
C9_BareAddressHostRoute ==
    (args.cidr = None /\ BareAddress /\ ~Truthy(args.subnets)) =>
        /\ pc # "validate" => (err = "none" /\ cidr = Some(IPV4LENGTH))
        /\ pc # "crash"
        /\ Produced =>
              /\ Items[1].mask = <<255, 255, 255, 255>>
              /\ FromQuad(Items[1].network) = args.ip_address.addr
              /\ FromQuad(Items[1].broadcast) = args.ip_address.addr

====
